---- MODULE Spec2Model ----
(***************************************************************************)
(* Model of projects/vi_dln/vi_main.py: the validation cache of validate,  *)
(* the accuracy aggregation of validate and test, and the training loop of *)
(* main with its best-checkpoint tracking, patience rollback, logp-penalty *)
(* decay and terminal reload.                                              *)
(*                                                                         *)
(* Weights are prompt strings.  Scores (dev_acc, best_dev, test_acc) and   *)
(* the logp penalty are rationals, kept as pairs <<numerator,              *)
(* denominator>> and compared by cross-multiplication.  Per-example losses *)
(* are numerators over LossUnit.                                           *)
(***************************************************************************)
EXTENDS FiniteSets, Integers, Sequences, TLC

\* ------------------------------------------------------------------ bounds
MaxIters == 3
MaxValFreq == 2
MaxTolerance == 2
DevSize == 3
MaxSplit == 41
MaxLogLines == 2
LossUnit == 2

\* batch_size=20 of dataset.iterate in validate and test
EvalBatchSize == 20

\* The prompt strings a layer can hold in the model.  Prompts are free text
\* and may contain the character '-'.
Weights == {"a", "a-a"}

VARIABLES
    \* options of main (fixed during a run)
    iters, val_freq, do_first_eval, do_zero_shot, cost_only, n_shots,
    train_p1, train_p2, one_layer, tolerance, logp_penalty, decay_logp_penalty,
    \* program state of main
    pc,                 \* position in main
    iteration,          \* loop variable of the for loop
    l1, l2,             \* model.encoder_l1.weight, model.encoder_l2.weight
    best_dev, best_ps, patience,
    val_scores,         \* dict: val_key -> dev_acc
    dev_acc,            \* result of the latest validate call
    model_logp_penalty, \* model.logp_penalty
    layers,             \* layers of the latest result_writer.write_result
    test_ps,            \* the weights the test evaluation ran on
    \* history of the run, for stating properties
    cache_hit,          \* the latest validate took the cached branch
    fwd_runs,           \* weight pair -> number of dev evaluations run for it
    first_acc,          \* weight pair -> value its first validate call returned
    val_owner,          \* val_key -> weight pair whose evaluation stored it
    val_ps,             \* weight pair the latest validate call scored
    rolled_back,        \* the latest validation loaded back the best weights
    touched,            \* accesses made to layer 1's weight / best_ps[0]
    trained_ps,         \* weight pair selected by the latest training step
    steps,              \* number of training steps made
    tests,              \* number of test evaluations made
    \* accuracy aggregation on its own
    losses,             \* per-example losses of a split
    acc_out,            \* accuracy computed for losses
    \* one call of validate, batch by batch
    val_batches,        \* the dev batches not yet evaluated
    val_acc, val_tot,   \* the accumulators acc, tot of validate
    scores_before,      \* val_scores when validate was called
    \* one call of init_prompts
    arg_p1, arg_p2,     \* the arguments init_p1, init_p2: <<>> is None
    log_lines,          \* the lines of the .log file
    prompts             \* what init_prompts returned

options == <<iters, val_freq, do_first_eval, do_zero_shot, cost_only, n_shots,
             train_p1, train_p2, one_layer, tolerance, logp_penalty,
             decay_logp_penalty>>
history == <<cache_hit, fwd_runs, first_acc, val_owner, val_ps, rolled_back,
             touched>>
trace == <<trained_ps, steps, tests>>
valrun == <<val_batches, val_acc, val_tot, scores_before>>
initcall == <<arg_p1, arg_p2, log_lines, prompts>>
accvars == <<losses, acc_out, valrun, initcall>>
vars == <<options, pc, iteration, l1, l2, best_dev, best_ps, patience,
          val_scores, dev_acc, model_logp_penalty, layers, test_ps, history,
          trace, accvars>>

\* ------------------------------------------------------------- rationals
ScoreGT(a, b) == a[1] * b[2] > b[1] * a[2]
ScoreEQ(a, b) == a[1] * b[2] = b[1] * a[2]
Zero == <<0, 1>>

\* ------------------------------------------------- accuracy aggregation
\* np.sum(losses)
RECURSIVE np_sum(_)
np_sum(s) == IF s = <<>> THEN 0 ELSE Head(s) + np_sum(Tail(s))

\* dataset.iterate(split, batch_size): consecutive batches of at most
\* batch_size examples, in order, covering the split once.
RECURSIVE iterate(_, _)
iterate(split, batch_size) ==
    IF split = <<>> THEN <<>>
    ELSE IF Len(split) <= batch_size THEN <<split>>
    ELSE <<SubSeq(split, 1, batch_size)>>
         \o iterate(SubSeq(split, batch_size + 1, Len(split)), batch_size)

\* Variant of eval_loop: tot += batch_size instead of tot += len(y).
RECURSIVE eval_loop_bs(_, _, _)
eval_loop_bs(batches, acc, tot) ==
    IF batches = <<>> THEN <<acc, tot>>
    ELSE LET y == Head(batches)
         IN eval_loop_bs(Tail(batches),
                         acc + (Len(y) * LossUnit - np_sum(y)),
                         tot + EvalBatchSize)

\* The loop of validate: acc += len(y) - np.sum(losses); tot += len(y).
\* acc is kept in units of 1/LossUnit.
RECURSIVE eval_loop(_, _, _)
eval_loop(batches, acc, tot) ==
    IF batches = <<>> THEN <<acc, tot>>
    ELSE LET y == Head(batches)
         IN eval_loop(Tail(batches),
                      acc + (Len(y) * LossUnit - np_sum(y)),
                      tot + Len(y))

\* dev_acc = acc / tot
validate_acc(split) ==
    LET r == eval_loop(iterate(split, EvalBatchSize), 0, 0)
    IN <<r[1], r[2] * LossUnit>>

\* The loop of test: acc += len(y) - np.sum(loss_fn(y_hat, y)); tot += len(y)
RECURSIVE test_loop(_, _, _)
test_loop(batches, acc, tot) ==
    IF batches = <<>> THEN <<acc, tot>>
    ELSE LET y == Head(batches)
         IN test_loop(Tail(batches),
                      acc + (Len(y) * LossUnit - np_sum(y)),
                      tot + Len(y))

\* test_acc = acc / tot
test_acc(split) ==
    LET r == test_loop(iterate(split, EvalBatchSize), 0, 0)
    IN <<r[1], r[2] * LossUnit>>

\* ------------------------------------------------------ validation cache
\* val_key = "{}-{}".format(model.encoder_l1.weight, model.encoder_l2.weight)
val_key(w1, w2) == w1 \o "-" \o w2

\* The loss vectors a dev evaluation can produce (exact-match losses).
DevLosses == [1..DevSize -> {0, LossUnit}]

Put(f, k, v) == [x \in DOMAIN f \cup {k} |-> IF x = k THEN v ELSE f[x]]

\* Variant of validate: no lookup in val_scores, the dev split is evaluated
\* on every call.
validate_nocache ==
    /\ pc = "validate"
    /\ LET key == val_key(l1, l2)
           ps == <<l1, l2>>
       IN \E ls \in DevLosses :
               /\ dev_acc' = validate_acc(ls)
               /\ val_scores' = Put(val_scores, key, validate_acc(ls))
               /\ cache_hit' = FALSE
               /\ fwd_runs' = Put(fwd_runs, ps,
                                  IF ps \in DOMAIN fwd_runs
                                  THEN fwd_runs[ps] + 1 ELSE 1)
               /\ val_owner' = Put(val_owner, key, ps)
    /\ first_acc' = IF <<l1, l2>> \in DOMAIN first_acc THEN first_acc
                    ELSE Put(first_acc, <<l1, l2>>, dev_acc')
    /\ val_ps' = <<l1, l2>>
    /\ pc' = "checkpoint"
    /\ UNCHANGED <<options, iteration, l1, l2, best_dev, best_ps, patience,
                   model_logp_penalty, layers, test_ps, rolled_back, touched,
                   accvars, trace>>

\* validate(dataset, model, ...): returns the cached score of val_key, or
\* evaluates the dev split and stores the score under val_key.
validate ==
    /\ pc = "validate"
    /\ LET key == val_key(l1, l2)
           ps == <<l1, l2>>
       IN IF key \in DOMAIN val_scores
          THEN /\ dev_acc' = val_scores[key]
               /\ cache_hit' = TRUE
               /\ UNCHANGED <<val_scores, fwd_runs, val_owner>>
          ELSE \E ls \in DevLosses :
               /\ dev_acc' = validate_acc(ls)
               /\ val_scores' = Put(val_scores, key, validate_acc(ls))
               /\ cache_hit' = FALSE
               /\ fwd_runs' = Put(fwd_runs, ps,
                                  IF ps \in DOMAIN fwd_runs
                                  THEN fwd_runs[ps] + 1 ELSE 1)
               /\ val_owner' = Put(val_owner, key, ps)
    /\ first_acc' = IF <<l1, l2>> \in DOMAIN first_acc THEN first_acc
                    ELSE Put(first_acc, <<l1, l2>>, dev_acc')
    /\ val_ps' = <<l1, l2>>
    /\ pc' = "checkpoint"
    /\ UNCHANGED <<options, iteration, l1, l2, best_dev, best_ps, patience,
                   model_logp_penalty, layers, test_ps, rolled_back, touched,
                   accvars, trace>>

\* ------------------------------------------------------------ main loop
\* Variant of ValidationDue: every multiple of val_freq, iteration 0 included
ValidationDue_multiples == iteration % val_freq = 0

\* if (iteration == 0 and do_first_eval) or
\*    (iteration > 0 and iteration % val_freq == 0)
ValidationDue ==
    \/ iteration = 0 /\ do_first_eval
    \/ iteration > 0 /\ iteration % val_freq = 0

\* for iteration in range(iters + 1): ... ; the else branch of the schedule
\* test only logs dev_acc = None.  A range that is used up ends the loop
\* (the break of iteration iters comes first).
loop_head ==
    /\ pc = "loop"
    /\ pc' = IF iteration > iters THEN "reload"
             ELSE IF ValidationDue THEN "validate" ELSE "write_result"
    /\ rolled_back' = FALSE
    /\ cache_hit' = FALSE
    /\ UNCHANGED <<options, iteration, l1, l2, best_dev, best_ps, patience,
                   val_scores, dev_acc, model_logp_penalty, layers, test_ps,
                   fwd_runs, first_acc, val_owner, val_ps, touched, accvars, trace>>

\* Variant of Improved: dev_acc > 0.0
Improved_positive == ScoreGT(dev_acc, Zero)

\* Variant of Improved: dev_acc >= best_dev
Improved_ge == ~ScoreGT(best_dev, dev_acc)

\* if dev_acc > best_dev
Improved == ScoreGT(dev_acc, best_dev)

\* if dev_acc > best_dev: best_dev, best_ps = ..., patience = 0
\* else: patience += 1
checkpoint ==
    /\ pc = "checkpoint"
    /\ IF Improved
       THEN /\ best_dev' = dev_acc
            /\ best_ps' = <<l1, l2>>
            /\ patience' = 0
            /\ touched' = touched \cup {"best_ps[0] stored"}
       ELSE /\ patience' = patience + 1
            /\ UNCHANGED <<best_dev, best_ps, touched>>
    /\ pc' = "rollback"
    /\ UNCHANGED <<options, iteration, l1, l2, val_scores, dev_acc,
                   model_logp_penalty, layers, test_ps, cache_hit, fwd_runs,
                   first_acc, val_owner, val_ps, rolled_back, accvars, trace>>

\* Variant of RollbackDue: patience > tolerance
RollbackDue_gt == tolerance >= 0 /\ patience > tolerance

\* Variant of RollbackDue: the test tolerance >= 0 left out
RollbackDue_noguard == patience >= tolerance

\* if tolerance >= 0 and patience >= tolerance
RollbackDue == tolerance >= 0 /\ patience >= tolerance

\* Loading back the best model: both weights from best_ps, patience = 0
rollback ==
    /\ pc = "rollback"
    /\ IF RollbackDue
       THEN /\ l1' = best_ps[1]
            /\ l2' = best_ps[2]
            /\ patience' = 0
            /\ rolled_back' = TRUE
            /\ touched' = touched \cup {"best_ps[0] read", "l1 assigned"}
       ELSE UNCHANGED <<l1, l2, patience, rolled_back, touched>>
    /\ pc' = "write_result"
    /\ UNCHANGED <<options, iteration, best_dev, best_ps, val_scores, dev_acc,
                   model_logp_penalty, layers, test_ps, cache_hit, fwd_runs,
                   first_acc, val_owner, val_ps, accvars, trace>>

\* result_writer.write_result(step=iteration, layers=[l2] if one_layer
\* else [l1, l2], ...)
write_result ==
    /\ pc = "write_result"
    /\ layers' = IF one_layer THEN <<l2>> ELSE <<l1, l2>>
    /\ pc' = "step"
    /\ UNCHANGED <<options, iteration, l1, l2, best_dev, best_ps, patience,
                   val_scores, dev_acc, model_logp_penalty, test_ps, history,
                   accvars, trace>>

\* Variant of BreakDue: the loop is left after the last iteration of the range
BreakDue_late ==
    \/ do_zero_shot
    \/ iteration > iters
    \/ cost_only
    \/ (n_shots >= 0 /\ ~train_p1 /\ ~train_p2)

\* Variant of BreakDue: only the end of the iterations breaks
BreakDue_noflags == iteration = iters

\* if do_zero_shot or iteration == iters or cost_only or
\*    (n_shots >= 0 and not train_p1 and not train_p2): break
BreakDue ==
    \/ do_zero_shot
    \/ iteration = iters
    \/ cost_only
    \/ (n_shots >= 0 /\ ~train_p1 /\ ~train_p2)

leave_loop ==
    /\ pc = "step"
    /\ BreakDue
    /\ pc' = "reload"
    /\ UNCHANGED <<options, iteration, l1, l2, best_dev, best_ps, patience,
                   val_scores, dev_acc, model_logp_penalty, layers, test_ps,
                   history, accvars, trace>>

RatSub(a, b) == <<a[1] * b[2] - b[1] * a[2], a[2] * b[2]>>
RatMul(a, b) == <<a[1] * b[1], a[2] * b[2]>>

\* logp_penalty * (1.0 - (iteration / iters))
DecayedPenalty ==
    RatMul(<<logp_penalty, 1>>, RatSub(<<1, 1>>, <<iteration, iters>>))

\* The prompts model.forward(x, y, ...) can select for the two layers: a
\* layer whose training is disabled keeps its weight.
forward_train ==
    (IF train_p1 THEN Weights ELSE {l1}) \X (IF train_p2 THEN Weights ELSE {l2})

\* Variant of train: the training step also resets patience.
train_resets_patience ==
    /\ pc = "step"
    /\ ~BreakDue
    /\ model_logp_penalty' = IF decay_logp_penalty THEN DecayedPenalty
                             ELSE model_logp_penalty
    /\ \E p \in forward_train :
          /\ l1' = p[1]
          /\ l2' = p[2]
    /\ touched' = touched \cup {"l1 assigned"}
    /\ patience' = 0
    /\ trained_ps' = <<l1', l2'>>
    /\ steps' = steps + 1
    /\ iteration' = iteration + 1
    /\ pc' = "loop"
    /\ UNCHANGED <<options, best_dev, best_ps, val_scores, dev_acc,
                   layers, test_ps, cache_hit, fwd_runs, first_acc, val_owner,
                   val_ps, rolled_back, tests, accvars>>

\* One training step: batch, logp penalty decay, model.forward, and the
\* assignment of the selected prompts to both layers.
train ==
    /\ pc = "step"
    /\ ~BreakDue
    /\ model_logp_penalty' = IF decay_logp_penalty THEN DecayedPenalty
                             ELSE model_logp_penalty
    /\ \E p \in forward_train :
          /\ l1' = p[1]
          /\ l2' = p[2]
    /\ touched' = touched \cup {"l1 assigned"}
    /\ trained_ps' = <<l1', l2'>>
    /\ steps' = steps + 1
    /\ iteration' = iteration + 1
    /\ pc' = "loop"
    /\ UNCHANGED <<options, best_dev, best_ps, patience, val_scores, dev_acc,
                   layers, test_ps, cache_hit, fwd_runs, first_acc, val_owner,
                   val_ps, rolled_back, tests, accvars>>

\* Variant of reload: the weights of the last iteration are kept.
reload_skip ==
    /\ pc = "reload"
    /\ pc' = "test"
    /\ UNCHANGED <<options, iteration, l1, l2, best_dev, best_ps, patience,
                   val_scores, dev_acc, model_logp_penalty, layers, test_ps,
                   history, accvars, trace>>

\* Loading best model: model.encoder_l1.weight = best_ps[0];
\* model.encoder_l2.weight = best_ps[1]
reload ==
    /\ pc = "reload"
    /\ l1' = best_ps[1]
    /\ l2' = best_ps[2]
    /\ touched' = touched \cup {"best_ps[0] read", "l1 assigned"}
    /\ pc' = "test"
    /\ UNCHANGED <<options, iteration, best_dev, best_ps, patience, val_scores,
                   dev_acc, model_logp_penalty, layers, test_ps, cache_hit,
                   fwd_runs, first_acc, val_owner, val_ps, rolled_back, accvars, trace>>

\* test_acc = test(dataset, model, ...): evaluates the current weights
run_test ==
    /\ pc = "test"
    /\ test_ps' = <<l1, l2>>
    /\ tests' = tests + 1
    /\ pc' = "done"
    /\ UNCHANGED <<options, iteration, l1, l2, best_dev, best_ps, patience,
                   val_scores, dev_acc, model_logp_penalty, layers, history,
                   trained_ps, steps, accvars>>

\* --------------------------------------------------------- specification
\* The exit options: none set, do_zero_shot, cost_only, few-shot without
\* training, few-shot with layer 1 trained.
ExitOptions ==
    { <<FALSE, FALSE, -1, TRUE, TRUE>>,
      <<TRUE, FALSE, -1, TRUE, TRUE>>,
      <<FALSE, TRUE, -1, TRUE, TRUE>>,
      <<FALSE, FALSE, 0, FALSE, FALSE>>,
      <<FALSE, FALSE, 0, TRUE, FALSE>> }

EmptyMap == [x \in {} |-> 0]

\* No call of validate is followed batch by batch.
NoValidateCall ==
    /\ val_batches = <<>> /\ val_acc = 0 /\ val_tot = 0
    /\ scores_before = EmptyMap

\* No call of init_prompts is followed.
NoInitPromptsCall ==
    /\ arg_p1 = <<>> /\ arg_p2 = <<>> /\ log_lines = <<>>
    /\ prompts = [raised |-> FALSE, init_p1 |-> <<>>, init_p2 |-> <<>>]

\* The prompts init_prompts returned for the run: init_p1, init_p2.
InitPrompts == <<"a", "a">>

Init ==
    /\ iters \in 0..MaxIters
    /\ val_freq \in 1..MaxValFreq
    /\ do_first_eval \in BOOLEAN
    /\ \E e \in ExitOptions :
          /\ do_zero_shot = e[1]
          /\ cost_only = e[2]
          /\ n_shots = e[3]
          /\ train_p1 = e[4]
          /\ train_p2 = e[5]
    /\ one_layer \in BOOLEAN
    /\ tolerance \in (-1)..MaxTolerance
    /\ logp_penalty \in {1}
    /\ decay_logp_penalty \in BOOLEAN
    /\ pc = "loop"
    /\ iteration = 0
    /\ l1 = InitPrompts[1]
    /\ l2 = InitPrompts[2]
    /\ best_dev = Zero
    /\ best_ps = <<l1, l2>>
    /\ patience = 0
    /\ val_scores = EmptyMap
    /\ dev_acc = Zero
    /\ model_logp_penalty = <<logp_penalty, 1>>
    /\ layers = <<>>
    /\ test_ps = <<>>
    /\ cache_hit = FALSE
    /\ fwd_runs = EmptyMap
    /\ first_acc = EmptyMap
    /\ val_owner = EmptyMap
    /\ val_ps = <<>>
    /\ rolled_back = FALSE
    /\ touched = {}
    /\ trained_ps = <<l1, l2>>
    /\ steps = 0
    /\ tests = 0
    /\ NoValidateCall
    /\ NoInitPromptsCall
    /\ losses = <<>>
    /\ acc_out = Zero

Next ==
    \/ loop_head
    \/ validate
    \/ checkpoint
    \/ rollback
    \/ write_result
    \/ leave_loop
    \/ train
    \/ reload
    \/ run_test

Spec == Init /\ [][Next]_vars

\* ------------------------------------------- accuracy aggregation, alone
\* Splits of 1..MaxSplit examples: loss 0 up to example a, loss 1 (LossUnit
\* units) up to example b, and a tail loss t of 0 or 1/LossUnit after it.
SplitLosses ==
    { [i \in 1..n |-> IF i <= a THEN 0 ELSE IF i <= b THEN LossUnit ELSE t] :
        n \in 1..MaxSplit, a \in 0..MaxSplit, b \in 0..MaxSplit, t \in {0, 1} }

InitAcc ==
    /\ losses \in SplitLosses
    /\ acc_out = Zero
    /\ pc = "split"
    /\ iters = 0 /\ val_freq = 1 /\ do_first_eval = FALSE
    /\ do_zero_shot = FALSE /\ cost_only = FALSE /\ n_shots = -1
    /\ train_p1 = TRUE /\ train_p2 = TRUE /\ one_layer = FALSE
    /\ tolerance = -1 /\ logp_penalty = 0 /\ decay_logp_penalty = TRUE
    /\ iteration = 0 /\ l1 = "a" /\ l2 = "a"
    /\ best_dev = Zero /\ best_ps = <<l1, l2>> /\ patience = 0
    /\ val_scores = EmptyMap /\ dev_acc = Zero
    /\ model_logp_penalty = <<logp_penalty, 1>>
    /\ layers = <<>> /\ test_ps = <<>>
    /\ cache_hit = FALSE /\ fwd_runs = EmptyMap /\ first_acc = EmptyMap
    /\ val_owner = EmptyMap /\ val_ps = <<>> /\ rolled_back = FALSE
    /\ touched = {}
    /\ trained_ps = <<l1, l2>> /\ steps = 0 /\ tests = 0
    /\ NoValidateCall
    /\ NoInitPromptsCall

\* the evaluation branch of validate on the split
eval_dev ==
    /\ pc = "split"
    /\ acc_out' = validate_acc(losses)
    /\ pc' = "dev_acc"
    /\ UNCHANGED <<options, iteration, l1, l2, best_dev, best_ps, patience,
                   val_scores, dev_acc, model_logp_penalty, layers, test_ps,
                   history, trace, losses, valrun, initcall>>

\* test on the split
eval_test ==
    /\ pc = "split"
    /\ acc_out' = test_acc(losses)
    /\ pc' = "test_acc"
    /\ UNCHANGED <<options, iteration, l1, l2, best_dev, best_ps, patience,
                   val_scores, dev_acc, model_logp_penalty, layers, test_ps,
                   history, trace, losses, valrun, initcall>>

NextAcc == eval_dev \/ eval_test

SpecAcc == InitAcc /\ [][NextAcc]_vars

\* ------------------------------------------- validate, batch by batch
\* Dev splits of no, one, two and three batches: loss 0 up to example a and
\* loss 1 after it.
ValSplits ==
    { [i \in 1..n |-> IF i <= a THEN 0 ELSE LossUnit] :
        n \in {0, 1, EvalBatchSize, EvalBatchSize + 1, MaxSplit},
        a \in {0, 1, EvalBatchSize, MaxSplit} }

\* The caches validate can be called with: scores of earlier calls under
\* some of the keys.
PriorScores == {validate_acc(<<0>>), validate_acc(<<LossUnit>>)}
ValKeys == {val_key(w1, w2) : w1 \in Weights, w2 \in Weights}
PriorCaches == UNION {[K -> PriorScores] : K \in SUBSET ValKeys}

InitVal ==
    /\ losses \in ValSplits
    /\ l1 \in Weights /\ l2 \in Weights
    /\ val_scores \in PriorCaches
    /\ scores_before = val_scores
    /\ val_batches = <<>> /\ val_acc = 0 /\ val_tot = 0
    /\ pc = "val_call"
    /\ acc_out = Zero
    /\ iters = 0 /\ val_freq = 1 /\ do_first_eval = TRUE
    /\ do_zero_shot = FALSE /\ cost_only = FALSE /\ n_shots = -1
    /\ train_p1 = TRUE /\ train_p2 = TRUE /\ one_layer = FALSE
    /\ tolerance = -1 /\ logp_penalty = 0 /\ decay_logp_penalty = TRUE
    /\ iteration = 0
    /\ best_dev = Zero /\ best_ps = <<l1, l2>> /\ patience = 0
    /\ dev_acc = Zero
    /\ model_logp_penalty = <<logp_penalty, 1>>
    /\ layers = <<>> /\ test_ps = <<>>
    /\ cache_hit = FALSE /\ fwd_runs = EmptyMap /\ first_acc = EmptyMap
    /\ val_owner = EmptyMap /\ val_ps = <<>> /\ rolled_back = FALSE
    /\ touched = {}
    /\ trained_ps = <<l1, l2>> /\ steps = 0 /\ tests = 0
    /\ NoInitPromptsCall

\* validate up to the loop: the lookup of val_key; acc = 0.0; tot = 0.0;
\* dataset.iterate("dev", batch_size=20)
val_begin ==
    /\ pc = "val_call"
    /\ IF val_key(l1, l2) \in DOMAIN val_scores
       THEN /\ dev_acc' = val_scores[val_key(l1, l2)]
            /\ cache_hit' = TRUE
            /\ pc' = "val_return"
            /\ UNCHANGED <<val_batches, val_acc, val_tot>>
       ELSE /\ val_acc' = 0
            /\ val_tot' = 0
            /\ val_batches' = iterate(losses, EvalBatchSize)
            /\ pc' = "val_loop"
            /\ UNCHANGED <<dev_acc, cache_hit>>
    /\ UNCHANGED <<options, iteration, l1, l2, best_dev, best_ps, patience,
                   val_scores, model_logp_penalty, layers, test_ps,
                   fwd_runs, first_acc, val_owner, val_ps, rolled_back,
                   touched, trace, losses, acc_out, scores_before, initcall>>

\* Variant of val_batch: the running accuracy acc / tot is stored under
\* val_key after each batch.
val_batch_running ==
    /\ pc = "val_loop"
    /\ val_batches # <<>>
    /\ LET y == Head(val_batches)
       IN /\ val_acc' = val_acc + (Len(y) * LossUnit - np_sum(y))
          /\ val_tot' = val_tot + Len(y)
    /\ val_batches' = Tail(val_batches)
    /\ val_scores' = Put(val_scores, val_key(l1, l2),
                         <<val_acc', val_tot' * LossUnit>>)
    /\ UNCHANGED <<options, pc, iteration, l1, l2, best_dev, best_ps,
                   patience, dev_acc, model_logp_penalty, layers,
                   test_ps, history, trace, losses, acc_out, scores_before,
                   initcall>>

\* One pass of the loop of validate: forward, losses,
\* acc += len(y) - np.sum(losses); tot += len(y)
val_batch ==
    /\ pc = "val_loop"
    /\ val_batches # <<>>
    /\ LET y == Head(val_batches)
       IN /\ val_acc' = val_acc + (Len(y) * LossUnit - np_sum(y))
          /\ val_tot' = val_tot + Len(y)
    /\ val_batches' = Tail(val_batches)
    /\ UNCHANGED <<options, pc, iteration, l1, l2, best_dev, best_ps,
                   patience, val_scores, dev_acc, model_logp_penalty, layers,
                   test_ps, history, trace, losses, acc_out, scores_before,
                   initcall>>

\* After the loop: dev_acc = acc / tot; val_scores[val_key] = dev_acc.
\* The division raises ZeroDivisionError on an empty split.
val_store ==
    /\ pc = "val_loop"
    /\ val_batches = <<>>
    /\ IF val_tot = 0
       THEN /\ pc' = "val_aborted"
            /\ UNCHANGED <<dev_acc, val_scores>>
       ELSE /\ dev_acc' = <<val_acc, val_tot * LossUnit>>
            /\ val_scores' = Put(val_scores, val_key(l1, l2), dev_acc')
            /\ pc' = "val_return"
    /\ UNCHANGED <<options, iteration, l1, l2, best_dev, best_ps, patience,
                   model_logp_penalty, layers, test_ps, history, trace,
                   losses, acc_out, valrun, initcall>>

\* An interrupt or a failing forward pass in the evaluation: validate has no
\* handler, the exception leaves the call and its locals are dropped.
val_abort ==
    /\ pc = "val_loop"
    /\ pc' = "val_aborted"
    /\ UNCHANGED <<options, iteration, l1, l2, best_dev, best_ps, patience,
                   val_scores, dev_acc, model_logp_penalty, layers, test_ps,
                   history, trace, accvars>>

NextVal == val_begin \/ val_batch \/ val_store \/ val_abort

SpecVal == InitVal /\ [][NextVal]_vars

\* ------------------------------------------------------- init_prompts
\* An optional string is <<>> (None) or <<s>>.
\* s.endswith(suffix)
endswith(s, suffix) ==
    /\ Len(s) >= Len(suffix)
    /\ SubSeq(s, Len(s) - Len(suffix) + 1, Len(s)) = suffix

\* the positions at which sub occurs in s
Occurrences(s, sub) ==
    {i \in 1..(Len(s) - Len(sub) + 1) : SubSeq(s, i, i + Len(sub) - 1) = sub}

\* sub in s
contains(s, sub) == Occurrences(s, sub) # {}

\* s.partition(sep)[-1]: what follows the first occurrence of sep, or the
\* empty string when sep does not occur.
partition_last(s, sep) ==
    IF contains(s, sep)
    THEN LET i == CHOOSE j \in Occurrences(s, sep) :
                      \A k \in Occurrences(s, sep) : j <= k
         IN SubSeq(s, i + Len(sep), Len(s))
    ELSE ""

Whitespace == {" ", "\n", "\t"}

RECURSIVE lstrip(_)
lstrip(s) ==
    IF Len(s) > 0 /\ SubSeq(s, 1, 1) \in Whitespace
    THEN lstrip(SubSeq(s, 2, Len(s))) ELSE s

RECURSIVE rstrip(_)
rstrip(s) ==
    IF Len(s) > 0 /\ SubSeq(s, Len(s), Len(s)) \in Whitespace
    THEN rstrip(SubSeq(s, 1, Len(s) - 1)) ELSE s

\* s.strip()
strip(s) == rstrip(lstrip(s))

\* "init_p and ...": neither None nor the empty string
Truthy(o) == o # <<>> /\ o[1] # ""

\* json.load(f)[dataset.dataset_name]["best_weights"] of the files on disk
JsonBestWeights == [f \in {"p.json", "q.json"} |->
                       IF f = "p.json" THEN "w1" ELSE "w2"]

\* dataset.instruction
instruction == "instr"

\* The lines a log file is made of.
LogLines == { "Best L1 weights: v\n",
              "x - Best L2 weights: w\n",
              "Best L2 weights:  u u \n",
              "Best L2 weights w\n",
              "Best L2 weights:\n" }

LogFiles == UNION {[1..n -> LogLines] : n \in 0..MaxLogLines}

\* The loop over the lines of the log: the first line with
\* "Best L2 weights" in it gives init_p2; <<>> when there is none.
RECURSIVE scan_log(_)
scan_log(lines) ==
    IF lines = <<>> THEN <<>>
    ELSE IF contains(Head(lines), "Best L2 weights")
         THEN <<strip(partition_last(Head(lines), "Best L2 weights:"))>>
         ELSE scan_log(Tail(lines))

\* if init_p2 is None: init_p2 = dataset.instruction;
\* if init_p1 is None: init_p1 = ""; return init_p1, init_p2
with_defaults(p1, p2) ==
    [raised |-> FALSE,
     init_p1 |-> IF p1 = <<>> THEN <<"">> ELSE p1,
     init_p2 |-> IF p2 = <<>> THEN <<instruction>> ELSE p2]

\* init_prompts(dataset, init_p1, init_p2) with the log file holding lines
init_prompts(p1, p2, lines) ==
    IF Truthy(p1) /\ endswith(p1[1], ".json")
    THEN with_defaults(<<JsonBestWeights[p1[1]]>>, p2)
    ELSE IF Truthy(p2) /\ endswith(p2[1], ".json")
    THEN with_defaults(p1, <<JsonBestWeights[p2[1]]>>)
    ELSE IF Truthy(p2) /\ endswith(p2[1], ".log")
    THEN IF scan_log(lines) = <<>>
         THEN [raised |-> TRUE, init_p1 |-> <<>>, init_p2 |-> <<>>]
         ELSE with_defaults(p1, scan_log(lines))
    ELSE with_defaults(p1, p2)

InitP1Args == {<<>>, <<"">>, <<"x">>, <<"p.json">>, <<"q.json">>}
InitP2Args == {<<>>, <<"">>, <<"y">>, <<"q.json">>, <<"r.log">>}

InitInitPrompts ==
    /\ arg_p1 \in InitP1Args
    /\ arg_p2 \in InitP2Args
    /\ log_lines \in LogFiles
    /\ prompts = [raised |-> FALSE, init_p1 |-> <<>>, init_p2 |-> <<>>]
    /\ pc = "init_call"
    /\ losses = <<>> /\ acc_out = Zero
    /\ NoValidateCall
    /\ iters = 0 /\ val_freq = 1 /\ do_first_eval = FALSE
    /\ do_zero_shot = FALSE /\ cost_only = FALSE /\ n_shots = -1
    /\ train_p1 = TRUE /\ train_p2 = TRUE /\ one_layer = FALSE
    /\ tolerance = -1 /\ logp_penalty = 0 /\ decay_logp_penalty = TRUE
    /\ iteration = 0 /\ l1 = "a" /\ l2 = "a"
    /\ best_dev = Zero /\ best_ps = <<l1, l2>> /\ patience = 0
    /\ val_scores = EmptyMap /\ dev_acc = Zero
    /\ model_logp_penalty = <<logp_penalty, 1>>
    /\ layers = <<>> /\ test_ps = <<>>
    /\ cache_hit = FALSE /\ fwd_runs = EmptyMap /\ first_acc = EmptyMap
    /\ val_owner = EmptyMap /\ val_ps = <<>> /\ rolled_back = FALSE
    /\ touched = {}
    /\ trained_ps = <<l1, l2>> /\ steps = 0 /\ tests = 0

\* init_p1, init_p2 = init_prompts(dataset, init_p1, init_p2)
call_init_prompts ==
    /\ pc = "init_call"
    /\ prompts' = init_prompts(arg_p1, arg_p2, log_lines)
    /\ pc' = "init_return"
    /\ UNCHANGED <<options, iteration, l1, l2, best_dev, best_ps, patience,
                   val_scores, dev_acc, model_logp_penalty, layers, test_ps,
                   history, trace, losses, acc_out, valrun, arg_p1, arg_p2,
                   log_lines>>

NextInitPrompts == call_init_prompts

SpecInitPrompts == InitInitPrompts /\ [][NextInitPrompts]_vars

\* ================================================================ claims
ValidationStep == {"validate", "checkpoint", "rollback"}

\* C1: for every weight pair the dev evaluation runs at most once; a later
\* validate call with the same pair returns the value of the pair's first
\* call without a dev evaluation; an entry of val_scores is never
\* overwritten or removed.
ValidateOncePerPair ==
    [][ /\ \A ps \in DOMAIN fwd_runs' : fwd_runs'[ps] <= 1
        /\ \A k \in DOMAIN val_scores :
              k \in DOMAIN val_scores' /\ val_scores'[k] = val_scores[k]
        /\ (pc = "validate" /\ <<l1, l2>> \in DOMAIN first_acc)
              => (dev_acc' = first_acc[<<l1, l2>>] /\ fwd_runs' = fwd_runs)
      ]_vars

\* C1 witness: a validate call found the score its own pair stored before.
SecondCallServedFromCache ==
    /\ pc = "checkpoint"
    /\ cache_hit
    /\ val_owner[val_key(l1, l2)] = <<l1, l2>>
    /\ fwd_runs[<<l1, l2>>] = 1
    /\ dev_acc = first_acc[<<l1, l2>>]

\* C2: a score returned from the cache was computed for exactly the
\* current weight pair.
CachedScoreIsOfCurrentPair ==
    (pc = "checkpoint" /\ cache_hit)
        => val_owner[val_key(l1, l2)] = <<l1, l2>>

\* C3: with tolerance >= 0, the validation at which patience reaches
\* tolerance leaves both weights equal to best_ps and patience 0; a
\* validation at which patience stays below tolerance does not touch the
\* weights.
PatienceRollback ==
    [][ tolerance >= 0 =>
          /\ (pc = "rollback" /\ patience = tolerance)
                => (l1' = best_ps[1] /\ l2' = best_ps[2] /\ patience' = 0
                    /\ best_ps' = best_ps)
          /\ (pc = "rollback" /\ patience < tolerance)
                => (l1' = l1 /\ l2' = l2)
          /\ (pc \in {"validate", "checkpoint"}) => (l1' = l1 /\ l2' = l2)
      ]_vars

\* C3 witness: tolerance 2, a best score followed by two lower ones on
\* other weights, and the weights loaded back.
RolledBackAfterTwoWorse ==
    /\ pc = "write_result"
    /\ tolerance = 2
    /\ rolled_back
    /\ val_ps # best_ps
    /\ <<l1, l2>> = best_ps
    /\ patience = 0
    /\ ScoreGT(best_dev, dev_acc)
    /\ ScoreGT(dev_acc, Zero)
    /\ Cardinality(DOMAIN val_scores) = 3

\* C4: a strictly greater dev score becomes best_dev, the validated pair
\* becomes best_ps and patience becomes 0; otherwise best_dev and best_ps
\* stay and patience grows by exactly 1, before the rollback test.
CheckpointTransition ==
    [][ pc = "checkpoint" =>
          /\ pc' = "rollback"
          /\ IF dev_acc[1] * best_dev[2] > best_dev[1] * dev_acc[2]
             THEN best_dev' = dev_acc /\ best_ps' = val_ps /\ patience' = 0
             ELSE best_dev' = best_dev /\ best_ps' = best_ps
                  /\ patience' = patience + 1
      ]_vars

\* C4 witness: a validation that scored exactly best_dev on other weights
\* counted as non-improving.
EqualScoreNotImproving ==
    /\ pc = "rollback"
    /\ ScoreEQ(dev_acc, best_dev)
    /\ ScoreGT(dev_acc, Zero)
    /\ val_ps # best_ps
    /\ patience >= 1

\* C5: whenever the test evaluation starts, both weights equal best_ps, and
\* the test ran on best_ps.
TerminalReload ==
    /\ pc = "test" => (l1 = best_ps[1] /\ l2 = best_ps[2])
    /\ pc = "done" => test_ps = best_ps

\* C5 witness: the loop ended on weights other than best_ps with patience
\* above 0, and the test ran on best_ps.
TestedBestAfterWorseEnd ==
    /\ pc = "done"
    /\ ~one_layer
    /\ layers # best_ps
    /\ patience > 0
    /\ test_ps = best_ps

\* C6: with tolerance < 0 no validation step assigns a weight, the weights
\* change only in a training step or the terminal reload, and patience
\* goes down only at a new best score.
NegativeToleranceNoRollback ==
    [][ tolerance < 0 =>
          /\ pc \in ValidationStep => (l1' = l1 /\ l2' = l2)
          /\ <<l1', l2'>> # <<l1, l2>> => pc \in {"step", "reload"}
          /\ ~rolled_back'
          /\ patience' < patience
                => (pc = "checkpoint"
                    /\ dev_acc[1] * best_dev[2] > best_dev[1] * dev_acc[2])
      ]_vars

\* C6 witness: tolerance < 0, two non-improving validations in a row, the
\* weights still away from best_ps.
NoRollbackDespitePatience ==
    /\ pc = "write_result"
    /\ tolerance < 0
    /\ patience >= 2
    /\ <<l1, l2>> # best_ps
    /\ ~rolled_back

\* C7: best_ps, best_dev and patience change only in the validation step.
CheckpointFrame ==
    [][ pc \notin {"checkpoint", "rollback"}
          => UNCHANGED <<best_ps, best_dev, patience>> ]_vars

\* C7 witness: an iteration without validation is reached after a training
\* step, with a checkpoint state that differs from the initial one.
CheckpointKeptAcrossIterations ==
    /\ pc = "write_result"
    /\ ~ValidationDue
    /\ iteration > 1
    /\ patience > 0
    /\ ScoreGT(best_dev, Zero)
    /\ best_ps # <<l1, l2>>

\* C8: in single-layer mode layer 1's weight is never assigned, never
\* stored in best_ps by the loop and best_ps[0] is never read.
SingleLayerLeavesLayer1 ==
    one_layer => touched = {}

\* C9: with decay_logp_penalty and iters >= 1 the penalty of the training
\* step of iteration t is logp_penalty * (1 - t/iters), and the last
\* training step runs with penalty zero.
PenaltyReachesZero ==
    (decay_logp_penalty /\ iters >= 1 /\ iteration >= 1) =>
        /\ model_logp_penalty[1] * iters
             = logp_penalty * (iters - (iteration - 1)) * model_logp_penalty[2]
        /\ (pc \in {"reload", "test", "done"} /\ iteration = iters)
             => model_logp_penalty[1] = 0

\* The sum of all losses of a split, example by example.
RECURSIVE TotalLoss(_, _)
TotalLoss(split, n) == IF n = 0 THEN 0 ELSE split[n] + TotalLoss(split, n - 1)

\* C10: for a non-empty split the accuracy of validate and of test is
\* (N - sum of all losses) / N, whatever the division into batches, and
\* lies in [0, 1]; losses [0, 1, 0] give 2/3.
AccuracyIsMeanOfSplit ==
    pc \in {"dev_acc", "test_acc"} =>
        LET N == Len(losses)
        IN /\ acc_out[2] > 0
           /\ acc_out[1] * (N * LossUnit)
                = (N * LossUnit - TotalLoss(losses, N)) * acc_out[2]
           /\ 0 <= acc_out[1] /\ acc_out[1] <= acc_out[2]
           /\ losses = <<0, LossUnit, 0>> => acc_out[1] * 3 = 2 * acc_out[2]

\* C10 witness: a split of three batches, the last one partial, with
\* losses in every batch.
ThreeBatchAccuracy ==
    /\ pc = "dev_acc"
    /\ Len(losses) = 2 * EvalBatchSize + 1
    /\ losses[1] = LossUnit
    /\ losses[EvalBatchSize + 1] = LossUnit
    /\ losses[2 * EvalBatchSize + 1] = 1
    /\ acc_out[1] * Len(losses) * LossUnit
         = (Len(losses) * LossUnit - TotalLoss(losses, Len(losses)))
           * acc_out[2]

\* C13: a validation runs in iteration 0 iff do_first_eval and in iteration
\* t > 0 iff t is a multiple of val_freq; validation and rollback come
\* before the result record, the record before the training step; a
\* validation scores the weights the previous training step selected (the
\* initial weights in iteration 0).
ValidationScheduleAndOrder ==
    [][ /\ pc = "loop" =>
              ((pc' = "validate") <=>
                  \/ iteration = 0 /\ do_first_eval
                  \/ iteration > 0 /\ iteration % val_freq = 0)
        /\ pc = "validate" => (<<l1, l2>> = trained_ps /\ val_ps' = trained_ps)
        /\ (pc = "validate" /\ iteration = 0) => val_ps' = InitPrompts
        /\ pc \in ValidationStep
              => (iteration' = iteration /\ steps' = steps /\ layers' = layers)
        /\ pc' = "checkpoint" => pc = "validate"
        /\ pc' = "rollback" => pc = "checkpoint"
        /\ pc' = "write_result" => pc \in {"loop", "rollback"}
        /\ layers' # layers => (pc = "write_result" /\ steps' = steps)
        /\ pc' = "step" => pc = "write_result"
        /\ steps' # steps => (pc = "step" /\ pc' = "loop")
      ]_vars

\* C13 witness: no first evaluation, val_freq 2: the validation of
\* iteration 2 scored the weights the training step of iteration 1 selected.
SecondIterationValidated ==
    /\ pc = "checkpoint"
    /\ ~do_first_eval
    /\ val_freq = 2
    /\ iteration = 2
    /\ val_ps = trained_ps
    /\ val_ps # InitPrompts
    /\ Cardinality(DOMAIN val_scores) = 1

NoExitFlag ==
    ~do_zero_shot /\ ~cost_only /\ ~(n_shots >= 0 /\ ~train_p1 /\ ~train_p2)

\* Position of pc on the way through one iteration and out of the loop.
PcRank ==
    CASE pc = "loop" -> 8 [] pc = "validate" -> 7 [] pc = "checkpoint" -> 6
      [] pc = "rollback" -> 5 [] pc = "write_result" -> 4 [] pc = "step" -> 3
      [] pc = "reload" -> 2 [] pc = "test" -> 1 [] OTHER -> 0

\* Strictly decreases with every step of main, and is never negative.
Measure == (iters - iteration) * 10 + PcRank

\* C14: without an exit flag the loop makes exactly iters training steps
\* (iterations 0 .. iters-1), iteration iters makes none, the run always
\* goes on until the test has run, and the test runs exactly once, after
\* the loop.
ItersStepsThenOneTest ==
    /\ [](pc # "done" => ENABLED Next)
    /\ [][ /\ Measure' < Measure /\ Measure' >= 0
           /\ NoExitFlag =>
                 /\ steps' # steps => (iteration < iters /\ steps = iteration)
                 /\ pc' \in {"reload", "test", "done"}
                       => (steps' = iters /\ iteration' = iters)
           /\ tests' # tests => (pc = "test" /\ tests = 0)
           /\ (pc' = "done") <=> (tests' = 1)
         ]_vars

\* C14 witness: a run of at least two training steps ended with one test.
RunOfItersStepsDone ==
    /\ pc = "done"
    /\ NoExitFlag
    /\ iters >= 2
    /\ steps = iters
    /\ tests = 1

EarlyExit ==
    do_zero_shot \/ cost_only \/ (n_shots >= 0 /\ ~train_p1 /\ ~train_p2)

\* C15: with do_zero_shot, cost_only, or n_shots >= 0 and no layer trained,
\* no training step is made, the weights stay the initial prompts, the test
\* runs on them, and the first validation still runs with do_first_eval.
EarlyExitKeepsInitialPrompts ==
    EarlyExit =>
        /\ iteration = 0 /\ steps = 0
        /\ <<l1, l2>> = InitPrompts
        /\ best_ps = InitPrompts
        /\ pc = "done" => test_ps = InitPrompts
        /\ pc \in {"step", "reload", "test", "done"}
              => ((val_ps = InitPrompts) <=> do_first_eval)

\* C15 witness: cost_only with a first validation that scored above 0, and
\* the test run on the initial prompts although iterations were asked for.
CostOnlyTestedInitialPrompts ==
    /\ pc = "done"
    /\ cost_only
    /\ do_first_eval
    /\ iters >= 1
    /\ ScoreGT(best_dev, Zero)
    /\ test_ps = InitPrompts

\* b is the maximum of 0 and the scores in the cache; every score a validate
\* call returned is in the cache.
IsRunningMax(b, scores) ==
    /\ \A k \in DOMAIN scores : ~ScoreGT(scores[k], b)
    /\ ScoreEQ(b, Zero) \/ \E k \in DOMAIN scores : ScoreEQ(scores[k], b)

\* C17: best_dev is the maximum of 0 and all dev scores returned so far (once
\* the checkpoint update of a validation is made), it never decreases, and
\* while it is 0 best_ps is the initial pair.
BestScoreIsRunningMax ==
    [][ /\ pc' # "checkpoint" => IsRunningMax(best_dev', val_scores')
        /\ ~ScoreGT(best_dev, best_dev')
        /\ ScoreEQ(best_dev', Zero) => best_ps' = InitPrompts
      ]_vars

\* C17 witness: the first validation scored exactly 0 on trained weights and
\* counted as non-improving.
FirstScoreZeroNotBest ==
    /\ pc = "rollback"
    /\ Cardinality(DOMAIN val_scores) = 1
    /\ ScoreEQ(dev_acc, Zero)
    /\ val_ps # InitPrompts
    /\ best_ps = InitPrompts
    /\ patience = 1

\* C18: whenever best_dev > 0 the cache has an entry for best_ps and the
\* entry equals best_dev.
BestEntryInCache ==
    ScoreGT(best_dev, Zero) =>
        /\ val_key(best_ps[1], best_ps[2]) \in DOMAIN val_scores
        /\ val_scores[val_key(best_ps[1], best_ps[2])] = best_dev

\* C18 witness: after a rollback to best_ps, a later validation of other
\* weights was served from the cache, and the entry of best_ps is best_dev.
BestEntryKeptAfterRollbackAndHit ==
    /\ pc = "write_result"
    /\ cache_hit
    /\ rolled_back
    /\ val_ps # best_ps
    /\ ScoreGT(best_dev, Zero)
    /\ val_scores[val_key(best_ps[1], best_ps[2])] = best_dev

\* C19: with tolerance >= 0, after every validation step
\* 0 <= patience < max(1, tolerance); with tolerance 0 every validation ends
\* on best_ps with patience 0; patience counts the non-improving validations
\* since the last new best or rollback.
PatienceBounded ==
    [][ tolerance >= 0 =>
          /\ pc' # "rollback"
                => (0 <= patience'
                    /\ patience' < (IF tolerance > 1 THEN tolerance ELSE 1))
          /\ (tolerance = 0 /\ pc = "rollback")
                => (<<l1', l2'>> = best_ps' /\ patience' = 0)
          /\ pc = "checkpoint"
                => patience' = (IF best_dev' # best_dev THEN 0 ELSE patience + 1)
          /\ pc = "rollback"
                => patience' = (IF rolled_back' THEN 0 ELSE patience)
          /\ pc \notin {"checkpoint", "rollback"} => patience' = patience
      ]_vars

\* C19 witness: tolerance 0, a non-improving validation of other weights
\* ended on best_ps with patience 0.
ToleranceZeroAlwaysRollsBack ==
    /\ pc = "write_result"
    /\ tolerance = 0
    /\ rolled_back
    /\ val_ps # best_ps
    /\ <<l1, l2>> = best_ps
    /\ patience = 0

\* C11: validate writes val_scores only after every dev batch has been
\* evaluated, and then the entry of the current pair with the accuracy of
\* the whole split; when the evaluation is aborted after any number of
\* batches val_scores is what it was before the call, and no entry holds the
\* accuracy of a part of the split.
InterruptedValidationKeepsCache ==
    [][ /\ val_scores' # val_scores
            => /\ pc = "val_loop" /\ val_batches = <<>> /\ pc' = "val_return"
               /\ val_scores' = Put(scores_before, val_key(l1, l2),
                                    validate_acc(losses))
        /\ pc' \in {"val_loop", "val_aborted"} => val_scores' = scores_before
        /\ \A k \in DOMAIN val_scores' :
              \/ k \in DOMAIN scores_before
                    /\ val_scores'[k] = scores_before[k]
              \/ k = val_key(l1, l2)
                    /\ val_scores'[k] = validate_acc(losses)
      ]_vars

\* C11 witness: the evaluation was aborted after the first of three batches,
\* whose accuracy differs from the accuracy of the split; the cache is the
\* one of before the call and has no entry for the pair.
AbortedAfterFirstBatch ==
    /\ pc = "val_aborted"
    /\ Len(iterate(losses, EvalBatchSize)) = 3
    /\ Len(val_batches) = 2
    /\ ~ScoreEQ(<<val_acc, val_tot * LossUnit>>, validate_acc(losses))
    /\ scores_before # EmptyMap
    /\ val_scores = scores_before
    /\ val_key(l1, l2) \notin DOMAIN val_scores

\* C12: for each of init_p1 and init_p2 that names a .json file, the prompt
\* init_prompts returns for that layer is the best_weights entry loaded from
\* that file, in every combination of the two arguments.
JsonArgsGiveBestWeights ==
    pc = "init_return" =>
        /\ (Truthy(arg_p1) /\ endswith(arg_p1[1], ".json"))
              => prompts.init_p1 = <<JsonBestWeights[arg_p1[1]]>>
        /\ (Truthy(arg_p2) /\ endswith(arg_p2[1], ".json"))
              => prompts.init_p2 = <<JsonBestWeights[arg_p2[1]]>>

\* The lines of the log that hold the marker "Best L2 weights:".
MarkerLines ==
    {i \in 1..Len(log_lines) : contains(log_lines[i], "Best L2 weights:")}

\* C16: with init_p2 naming a .log file and init_p1 not a .json file,
\* init_prompts returns as layer-2 prompt the stripped text after
\* "Best L2 weights:" on the first line of the file that holds it, and raises
\* when no line holds it; when it does not raise neither prompt is None, a
\* missing init_p1 is "" and a missing init_p2 is the dataset instruction.
LogPromptIsTextAfterMarker ==
    (pc = "init_return"
        /\ ~(Truthy(arg_p1) /\ endswith(arg_p1[1], ".json")))
    => /\ (Truthy(arg_p2) /\ endswith(arg_p2[1], ".log"))
          => IF MarkerLines = {} THEN prompts.raised
             ELSE LET i == CHOOSE j \in MarkerLines :
                               \A k \in MarkerLines : j <= k
                  IN /\ ~prompts.raised
                     /\ prompts.init_p2 =
                          <<strip(partition_last(log_lines[i],
                                                 "Best L2 weights:"))>>
       /\ ~prompts.raised
          => /\ prompts.init_p1 # <<>> /\ prompts.init_p2 # <<>>
             /\ arg_p1 = <<>> => prompts.init_p1 = <<"">>
             /\ arg_p2 = <<>> => prompts.init_p2 = <<instruction>>
====
